---------------------------- MODULE Spec2Model ----------------------------
(***************************************************************************)
(* A model of python/aux/utils_floodmodel.py (ml_flood): the basin mask,   *)
(* the upstream selector, the time-shift expanders, the cluster builders   *)
(* and the two predictor/predictand reshapers.                             *)
(*                                                                         *)
(* Every function of the file is a stateless transformation of labelled    *)
(* arrays.  The state machine is a caller: from "idle" it calls one        *)
(* function with arguments drawn from bounded sets (args), the function    *)
(* runs to its return or to its exception (ret), and Return leads back.    *)
(*                                                                         *)
(* Values.  A cell holds a number or the missing marker (NaN).  A number n *)
(* is the tuple <<n>> and NaN the empty tuple, so that a comparison with   *)
(* NaN is false, as in numpy.  A quotient (sum/aggregate) is kept as the   *)
(* pair <<numerator, denominator>>.                                        *)
(* Arrays.  A one-dimensional axis is a sequence; Python's 0-based index t *)
(* is position t+1.  An ordered mapping (dict, Dataset) is a sequence of   *)
(* records [name, values].                                                 *)
(***************************************************************************)
EXTENDS Integers, Sequences, FiniteSets, TLC

VARIABLES call, args, ret
vars == <<call, args, ret>>

-----------------------------------------------------------------------------
(* Bounds of the model *)

\* number of time steps of the time series
NTime == 3
\* discharge values and bin edges range over 0..MaxDis
MaxDis == 4
\* bin_edges has at most MaxEdges entries
MaxEdges == 3
\* shift ranges over -1..MaxShift, aggregate over 1..MaxAggregate
MaxShift == 3
MaxAggregate == 4
\* length of the synthetic ramp series 0..RampLen-1
RampLen == 10
\* `shifts` has at most MaxShifts entries, `variables` at most MaxVariables
MaxShifts == 2
MaxVariables == 2
\* number of time steps of the gridded fields
NGridTime == 2

-----------------------------------------------------------------------------
(* Values and generic helpers *)

NaN == <<>>
Num(n) == <<n>>
isnan(v) == v = NaN
Val(v) == v[1]

Range(s) == {s[i] : i \in 1..Len(s)}

\* all sequences over S of length 0..n
SeqUpTo(S, n) == UNION {[1..k -> S] : k \in 0..n}

RECURSIVE SumTo(_, _)
\* sum of the numbers f[1..n] (f a sequence of integers)
SumTo(f, n) == IF n = 0 THEN 0 ELSE f[n] + SumTo(f, n - 1)

\* Python's dict / xr.Dataset item assignment d[k] = v: an existing key keeps
\* its place and takes the new value, a new key is appended.
DictHas(d, k) == \E i \in 1..Len(d) : d[i].name = k
DictGet(d, k) == d[CHOOSE i \in 1..Len(d) : d[i].name = k].values
DictSet(d, k, v) ==
    IF DictHas(d, k)
    THEN [i \in 1..Len(d) |-> IF d[i].name = k THEN [name |-> k, values |-> v] ELSE d[i]]
    ELSE Append(d, [name |-> k, values |-> v])
DictNames(d) == [i \in 1..Len(d) |-> d[i].name]

-----------------------------------------------------------------------------
(* The grid of the spatial functions: 1-D latitude and longitude axes *)

Latitude == <<48>>
Longitude == <<10, 11>>
Cells == (1..Len(Latitude)) \X (1..Len(Longitude))

-----------------------------------------------------------------------------
(* cluster_by_discharge *)

\* numpy's elementwise comparisons: false when either side is NaN
GE(a, b) == ~isnan(a) /\ ~isnan(b) /\ Val(a) >= Val(b)
LT(a, b) == ~isnan(a) /\ ~isnan(b) /\ Val(a) < Val(b)

\* faulty variant of BinMask: the upper edge included
BinMaskClosed(dis_2d, bin_edges, i) ==
    [c \in DOMAIN dis_2d |-> GE(dis_2d[c], Num(bin_edges[i + 1]))
                             /\ ~LT(Num(bin_edges[i + 2]), dis_2d[c])
                             /\ ~isnan(dis_2d[c])]
\* (dis_2d >= bin_edges[i]) & (dis_2d < bin_edges[i+1]), i 0-based
BinMask(dis_2d, bin_edges, i) ==
    [c \in DOMAIN dis_2d |-> GE(dis_2d[c], Num(bin_edges[i + 1]))
                             /\ LT(dis_2d[c], Num(bin_edges[i + 2]))]

RECURSIVE ClusterLoop(_, _, _, _)
\* for i in range(len(bin_edges)-1): cluster[str(i)] = ...   (i from `i` on)
ClusterLoop(cluster, dis_2d, bin_edges, i) ==
    IF i >= Len(bin_edges) - 1 THEN cluster
    ELSE ClusterLoop(DictSet(cluster, ToString(i), BinMask(dis_2d, bin_edges, i)),
                     dis_2d, bin_edges, i + 1)

\* the returned xr.Dataset: the masks and the three coordinates
cluster_by_discharge(dis_2d, bin_edges) ==
    [status |-> "ok",
     data_vars |-> ClusterLoop(<<>>, dis_2d, bin_edges, 0),
     coords |-> [clusterId |-> [k \in 1..Len(bin_edges) |-> k - 1],
                 latitude |-> Latitude,
                 longitude |-> Longitude]]

DisValues == {NaN} \cup {Num(n) : n \in 0..MaxDis}

CallClusterByDischarge ==
    /\ call = "idle"
    /\ \E dis_2d \in [Cells -> DisValues], bin_edges \in SeqUpTo(0..MaxDis, MaxEdges) :
         /\ call' = "cluster_by_discharge"
         /\ args' = [dis_2d |-> dis_2d, bin_edges |-> bin_edges]
         /\ ret' = cluster_by_discharge(dis_2d, bin_edges)

-----------------------------------------------------------------------------
(* shift_and_aggregate *)

\* faulty variant of Shift: the series moved the other way
ShiftBackward(series, n) ==
    [t \in 1..Len(series) |->
        IF t + n >= 1 /\ t + n <= Len(series) THEN series[t + n] ELSE NaN]
\* DataArray.shift(time=n): the value of index t moves to index t+n, the
\* exposed positions are NaN (n may be negative)
Shift(series, n) ==
    [t \in 1..Len(series) |->
        IF t - n >= 1 /\ t - n <= Len(series) THEN series[t - n] ELSE NaN]

\* .rolling(time=window).sum(): min_periods defaults to the window, so the sum
\* is NaN unless all `window` values ending at t exist and are not NaN
RollingSum(series, window) ==
    [t \in 1..Len(series) |->
        IF t - window + 1 < 1 THEN NaN
        ELSE LET w == [k \in 1..window |-> series[t - window + k]]
             IN IF \E k \in 1..window : isnan(w[k]) THEN NaN
                ELSE Num(SumTo([k \in 1..window |-> Val(w[k])], window))]

\* elementwise series / n: NaN stays NaN, a number s becomes the quotient s/n
DivideBy(series, n) ==
    [t \in 1..Len(series) |-> IF isnan(series[t]) THEN NaN ELSE <<Val(series[t]), n>>]

\* df.shift(time=shift).rolling(time=aggregate).sum()/aggregate
shift_and_aggregate(df, shift, aggregate) ==
    DivideBy(RollingSum(Shift(df, shift), aggregate), aggregate)

\* the ramp 0, 1, ..., RampLen-1
Ramp == [t \in 1..RampLen |-> Num(t - 1)]
SeriesValues == {NaN, Num(1), Num(2)}

\* A window longer than the series: bottleneck's move_sum raises ValueError,
\* the numpy fallback of xarray's rolling returns all NaN; either can be the
\* build's behaviour.
CallShiftAndAggregate ==
    /\ call = "idle"
    /\ \E df \in [1..NTime -> SeriesValues] \cup {Ramp},
          shift \in -1..MaxShift, aggregate \in 1..MaxAggregate :
         /\ call' = "shift_and_aggregate"
         /\ args' = [df |-> df, shift |-> shift, aggregate |-> aggregate]
         /\ \/ ret' = [status |-> "ok", values |-> shift_and_aggregate(df, shift, aggregate)]
            \/ /\ aggregate > Len(df)
               /\ ret' = [status |-> "ValueError"]

-----------------------------------------------------------------------------
(* add_shifted_variables *)

\* newvar = var+sign+str(i): '-' for i > 0, '+' otherwise; str(i) of a
\* negative i carries its own minus sign
NewVar(var, i) ==
    var \o (IF i > 0 THEN "-" ELSE "+") \o ToString(i)

RECURSIVE ShiftLoop(_, _, _, _, _)
\* for var in variables: for i in shifts: ...   (from the vi-th variable and
\* the si-th shift on); ds[var] of a name that is not in ds raises KeyError
ShiftLoop(ds, variables, shifts, vi, si) ==
    IF vi > Len(variables) THEN [status |-> "ok", ds |-> ds]
    ELSE IF si > Len(shifts) THEN ShiftLoop(ds, variables, shifts, vi + 1, 1)
    ELSE LET var == variables[vi]
             i   == shifts[si]
         IN IF i = 0 THEN ShiftLoop(ds, variables, shifts, vi, si + 1)
            ELSE IF ~DictHas(ds, var) THEN [status |-> "KeyError"]
            ELSE ShiftLoop(DictSet(ds, NewVar(var, i), Shift(DictGet(ds, var), i)),
                           variables, shifts, vi, si + 1)

\* `ds` arrives as a Dataset (an ordered mapping) or as a named DataArray,
\* which to_dataset() turns into a Dataset of that one variable; `variables`
\* is the string 'all' or a list of names.  ds.data_vars is iterated over the
\* mapping it was taken from, which item assignment replaces rather than
\* mutates: 'all' runs over the variables of the input.
add_shifted_variables(ds, shifts, variables) ==
    LET dset == IF ds.type = "DataArray"
                THEN <<[name |-> ds.name, values |-> ds.values]>>
                ELSE ds.data_vars
        sel  == IF variables.type = "str" THEN DictNames(dset) ELSE variables.list
    IN ShiftLoop(dset, sel, shifts, 1, 1)

\* the series of the inputs: distinct numbers, so that a value names its origin
SeriesOf(k, gap) ==
    [t \in 1..NTime |-> IF gap /\ t = 2 THEN NaN ELSE Num(10 * k + t)]
ShiftInputs ==
    UNION {{ [type |-> "DataArray", name |-> "x", values |-> SeriesOf(1, gap)],
             [type |-> "Dataset",
              data_vars |-> <<[name |-> "x", values |-> SeriesOf(1, gap)]>>],
             [type |-> "Dataset",
              data_vars |-> <<[name |-> "x", values |-> SeriesOf(1, gap)],
                              [name |-> "x-1", values |-> SeriesOf(2, FALSE)]>>],
             [type |-> "Dataset",
              data_vars |-> <<[name |-> "x", values |-> SeriesOf(1, gap)],
                              [name |-> "y", values |-> SeriesOf(3, FALSE)]>>] }
           : gap \in BOOLEAN}
VariablesInputs ==
    {[type |-> "str", list |-> <<>>]}
    \cup {[type |-> "list", list |-> l] : l \in SeqUpTo({"x", "x-1", "y"}, MaxVariables)}

CallAddShiftedVariables ==
    /\ call = "idle"
    /\ \E ds \in ShiftInputs, shifts \in SeqUpTo(-1..2, MaxShifts),
          variables \in VariablesInputs :
         /\ call' = "add_shifted_variables"
         /\ args' = [ds |-> ds, shifts |-> shifts, variables |-> variables]
         /\ ret' = add_shifted_variables(ds, shifts, variables)

-----------------------------------------------------------------------------
(* get_mask_of_basin *)

\* Horizontal coordinates are integers in units of half a degree; the
\* polygons of the basins dataset are rectangles given in quarter degrees
\* (twice the coordinate), so that a cell centre is an integer too.
\* Major_Basins_of_the_World.shp: its rows in file order.  "Rhine" names two
\* polygons, "Elbe" (below) none.
Basins ==
    << [NAME |-> "Danube", geometry |-> [xmin |-> 0, xmax |-> 16, ymin |-> -4, ymax |-> 4]],
       [NAME |-> "Rhine",  geometry |-> [xmin |-> 0, xmax |-> 10, ymin |-> -4, ymax |-> 10]],
       [NAME |-> "Rhine",  geometry |-> [xmin |-> 8, xmax |-> 16, ymin |-> -4, ymax |-> 10]] >>
BasinNames == {"Danube", "Rhine", "Elbe"}

\* basins.query("NAME == '...'").reset_index(drop=True), then
\* shapes = [(shape, n) for n, shape in enumerate(single_basin.geometry)]
RECURSIVE Query(_, _, _)
Query(rows, kw_basins, i) ==
    IF i > Len(rows) THEN <<>>
    ELSE IF rows[i].NAME = kw_basins
         THEN <<rows[i].geometry>> \o Query(rows, kw_basins, i + 1)
         ELSE Query(rows, kw_basins, i + 1)
Shapes(kw_basins) ==
    LET single_basin == Query(Basins, kw_basins, 1)
    IN [n \in 1..Len(single_basin) |-> [shape |-> single_basin[n], value |-> n - 1]]

\* transform_from_latlon: the origin is (lon[0], lat[0]) and the steps are
\* lon[1]-lon[0] and lat[1]-lat[0]: pixel (row, col) covers the square whose
\* corner is the coordinate label, so its centre, in quarter degrees, is
\* twice the label plus one step.
transform_from_latlon(lat, lon) ==
    [x0 |-> lon[1], dx |-> lon[2] - lon[1], y0 |-> lat[1], dy |-> lat[2] - lat[1]]
PixelCentre(tr, row, col) ==
    [x |-> 2 * tr.x0 + (2 * (col - 1) + 1) * tr.dx,
     y |-> 2 * tr.y0 + (2 * (row - 1) + 1) * tr.dy]

Inside(pt, shape) ==
    /\ shape.xmin <= pt.x /\ pt.x <= shape.xmax
    /\ shape.ymin <= pt.y /\ pt.y <= shape.ymax

RECURSIVE Burn(_, _, _, _)
\* features.rasterize: the shapes are burnt in order, a later shape over an
\* earlier one; a pixel no shape covers keeps the fill value (NaN)
Burn(shapes, pt, k, acc) ==
    IF k > Len(shapes) THEN acc
    ELSE Burn(shapes, pt, k + 1,
              IF Inside(pt, shapes[k].shape) THEN Num(shapes[k].value) ELSE acc)
rasterize(shapes, coords) ==
    LET tr == transform_from_latlon(coords.latitude, coords.longitude)
    IN [c \in (1..Len(coords.latitude)) \X (1..Len(coords.longitude)) |->
           Burn(shapes, PixelCentre(tr, c[1], c[2]), 1, NaN)]

\* da.basins == 0
BasinsEqZero(raster) == [c \in DOMAIN raster |-> raster[c] = Num(0)]


\* rasterio refuses an empty list of shapes ("No valid geometry objects found
\* for rasterize"); any other list is rasterized without complaint.
get_mask_of_basin(coords, kw_basins) ==
    LET shapes == Shapes(kw_basins)
    IN IF Len(shapes) = 0 THEN [status |-> "ValueError"]
       ELSE [status |-> "ok", mask |-> BasinsEqZero(rasterize(shapes, coords))]

\* the grids of the masks: latitude and longitude in either order
LatitudeAxes == {<<3, 0>>, <<0, 3>>}
LongitudeAxes == {<<0, 3, 6>>, <<6, 3, 0>>}

CallGetMaskOfBasin ==
    /\ call = "idle"
    /\ \E latitude \in LatitudeAxes, longitude \in LongitudeAxes, kw_basins \in BasinNames :
         /\ call' = "get_mask_of_basin"
         /\ args' = [coords |-> [latitude |-> latitude, longitude |-> longitude],
                     kw_basins |-> kw_basins]
         /\ ret' = get_mask_of_basin(args'.coords, kw_basins)

-----------------------------------------------------------------------------
(* select_upstream *)

\* 1.5 degrees, in units of half a degree
HalfBox == 3

Ascending(axis) == \A i \in 1..(Len(axis) - 1) : axis[i] < axis[i + 1]
Descending(axis) == \A i \in 1..(Len(axis) - 1) : axis[i] > axis[i + 1]

\* .loc[slice(start, stop)] on a pandas index: on an increasing axis the
\* labels from start up to stop, on a decreasing axis the labels from start
\* down to stop, both ends included; nothing when start and stop run against
\* the axis
LabelSlice(axis, start, stop) ==
    IF Ascending(axis)
    THEN {i \in 1..Len(axis) : start <= axis[i] /\ axis[i] <= stop}
    ELSE {i \in 1..Len(axis) : start >= axis[i] /\ axis[i] >= stop}

\* da.where(cond): the value (a boolean read as 1.0 or 0.0) where cond holds,
\* NaN elsewhere
Where(da, cond) ==
    [c \in DOMAIN da |-> IF cond[c] THEN Num(IF da[c] THEN 1 ELSE 0) ELSE NaN]

\* faulty variant of IsWest: the target's own longitude left out
IsWestStrict(da, longitude, lon) ==
    LET kept == Where(da, [c \in DOMAIN da |-> longitude[c[2]] < lon])
    IN [c \in DOMAIN da |-> ~isnan(kept[c])]
\* is_west = (~np.isnan(da.where(da.longitude <= lon))).astype(bool)
IsWest(da, longitude, lon) ==
    LET kept == Where(da, [c \in DOMAIN da |-> longitude[c[2]] <= lon])
    IN [c \in DOMAIN da |-> ~isnan(kept[c])]

\* nearby_mask = da*0.; nearby_mask.loc[latitude=slice(lat+1.5, lat-1.5),
\*                                      longitude=slice(lon-1.5, lon+1.5)] = 1.
NearbyMask(da, latitude, longitude, lat, lon) ==
    LET rows == LabelSlice(latitude, lat + HalfBox, lat - HalfBox)
        cols == LabelSlice(longitude, lon - HalfBox, lon + HalfBox)
    IN [c \in DOMAIN da |-> c[1] \in rows /\ c[2] \in cols]

\* mask_river_in_catchment: its values, its two axes and its other
\* coordinates (a scalar `time` may be left on it)
select_upstream(mask_river_in_catchment, lat, lon, basin) ==
    LET da == mask_river_in_catchment.values
        latitude == mask_river_in_catchment.latitude
        longitude == mask_river_in_catchment.longitude
        is_west == IsWest(da, longitude, lon)
        mask_basin == get_mask_of_basin([latitude |-> latitude, longitude |-> longitude],
                                        basin)
        nearby_mask == NearbyMask(da, latitude, longitude, lat, lon)
    IN IF mask_basin.status # "ok" THEN [status |-> mask_basin.status]
       ELSE [status |-> "ok",
             values |-> [c \in DOMAIN da |->
                            mask_basin.mask[c] /\ nearby_mask[c] /\ is_west[c] /\ da[c]],
             coords |-> (mask_river_in_catchment.coords \cup {"basins"})
                           \ {"basins", "time"}]

TargetLatitudes == {0, -1}
TargetLongitudes == {0, 3, 6}

CallSelectUpstream ==
    /\ call = "idle"
    /\ \E latitude \in LatitudeAxes, longitude \in LongitudeAxes,
          lat \in TargetLatitudes, lon \in TargetLongitudes, basin \in BasinNames,
          coords \in {{}, {"time"}} :
         \E da \in [(1..Len(latitude)) \X (1..Len(longitude)) -> BOOLEAN] :
           /\ call' = "select_upstream"
           /\ args' = [mask_river_in_catchment |->
                          [values |-> da, latitude |-> latitude,
                           longitude |-> longitude, coords |-> coords],
                       lat |-> lat, lon |-> lon, basin |-> basin]
           /\ ret' = select_upstream(args'.mask_river_in_catchment, lat, lon, basin)

-----------------------------------------------------------------------------
(* aggregate_clustersum *)

\* the cells of a (latitude, longitude) grid in row-major order
CellSeq(latitude, longitude) ==
    [k \in 1..(Len(latitude) * Len(longitude)) |->
        <<((k - 1) \div Len(longitude)) + 1, ((k - 1) % Len(longitude)) + 1>>]

\* np.allclose on coordinate axes of equal length; the model's coordinates
\* are integers, on which closeness is equality
AllClose(a, b) == \A i \in 1..Len(a) : a[i] = b[i]

AxisMin(axis) == CHOOSE m \in Range(axis) : \A x \in Range(axis) : m <= x
AxisMax(axis) == CHOOSE m \in Range(axis) : \A x \in Range(axis) : m >= x

\* ds.interp(latitude=..., longitude=...), linear: a target point on a node
\* of ds takes the node's value, a target point outside the range of ds is
\* NaN.  (The grids enumerated below put every target point on a node or
\* outside the range.)
Interp(field, ds, cluster) ==
    [t \in DOMAIN field |->
       [c \in (1..Len(cluster.latitude)) \X (1..Len(cluster.longitude)) |->
          LET y == cluster.latitude[c[1]]
              x == cluster.longitude[c[2]]
          IN IF y < AxisMin(ds.latitude) \/ y > AxisMax(ds.latitude)
                \/ x < AxisMin(ds.longitude) \/ x > AxisMax(ds.longitude)
             THEN NaN
             ELSE field[t][<<CHOOSE i \in 1..Len(ds.latitude) : ds.latitude[i] = y,
                             CHOOSE j \in 1..Len(ds.longitude) : ds.longitude[j] = x>>]]]

\* python.aux.utils.calc_area: the area of every cell of a single-time-step
\* grid; the areas themselves are the environment's (`weights`)
calc_area(grid, weights) == [c \in grid |-> weights[c]]

\* faulty variant of WhereOrZero: where(this_cluster), NaN outside
WhereOrNaN(field, this_cluster) ==
    [t \in DOMAIN field |->
       [c \in DOMAIN field[t] |-> IF this_cluster[c] THEN field[t][c] ELSE NaN]]
\* ds[var].where(this_cluster, 0.): the value inside the cluster, 0 outside
WhereOrZero(field, this_cluster) ==
    [t \in DOMAIN field |->
       [c \in DOMAIN field[t] |-> IF this_cluster[c] THEN field[t][c] ELSE Num(0)]]

\* xr.dot(da, area_per_gridpoint): per time step the sum over all cells of
\* value * area; a NaN among the values makes the sum NaN
XrDot(da, area, cells) ==
    [t \in DOMAIN da |->
       IF \E k \in 1..Len(cells) : isnan(da[t][cells[k]]) THEN NaN
       ELSE Num(SumTo([k \in 1..Len(cells) |-> Val(da[t][cells[k]]) * area[cells[k]]],
                      Len(cells)))]

RECURSIVE ClusterSumLoop(_, _, _, _, _, _, _)
\* for var in ds: for cl in cluster.coords[clusterdim]: ...
\* `out` is the Dataset under construction: its variables and its coordinates
ClusterSumLoop(out, dset, cluster, clusterdim, area, vi, ci) ==
    IF vi > Len(dset) THEN out
    ELSE IF ci > Len(cluster.ids)
         THEN ClusterSumLoop(out, dset, cluster, clusterdim, area, vi + 1, 1)
    ELSE LET newname == dset[vi].name \o "_cluster" \o ToString(cluster.ids[ci])
             this_cluster == cluster.masks[ci]
             da == WhereOrZero(dset[vi].values, this_cluster)
             cells == CellSeq(cluster.latitude, cluster.longitude)
         IN ClusterSumLoop(
                [data_vars |-> DictSet(out.data_vars, newname, XrDot(da, area, cells)),
                 coords |-> out.coords \cup {"time", clusterdim}],
                dset, cluster, clusterdim, area, vi, ci + 1)

\* out.drop(clusterdim) raises ValueError when `out` never received the
\* coordinate, that is when the loops assigned nothing.
aggregate_clustersum(ds, cluster, clusterdim, weights) ==
    LET interp == ~(/\ Len(ds.latitude) = Len(cluster.latitude)
                    /\ Len(ds.longitude) = Len(cluster.longitude)
                    /\ AllClose(ds.latitude, cluster.latitude)
                    /\ AllClose(ds.longitude, cluster.longitude))
        vars1 == IF interp
                 THEN [i \in 1..Len(ds.data_vars) |->
                          [name |-> ds.data_vars[i].name,
                           values |-> Interp(ds.data_vars[i].values, ds, cluster)]]
                 ELSE ds.data_vars
        area_per_gridpoint ==
            calc_area((1..Len(cluster.latitude)) \X (1..Len(cluster.longitude)), weights)
        out == ClusterSumLoop([data_vars |-> <<>>, coords |-> {}], vars1, cluster,
                              clusterdim, area_per_gridpoint, 1, 1)
    IN IF clusterdim \notin out.coords THEN [status |-> "ValueError"]
       ELSE [status |-> "ok",
             data_vars |-> out.data_vars,
             coords |-> out.coords \ {clusterdim}]

\* the fields of the inputs: a cell is missing or holds a number that names
\* its variable, time step and column
GridField(k, longitude, present) ==
    [t \in 1..NGridTime |->
       [c \in (1..Len(Latitude)) \X (1..Len(longitude)) |->
          IF present[<<t, c[2]>>] THEN Num(100 * k + 10 * t + c[2]) ELSE NaN]]
\* a DataArray is the Dataset of its one named variable (to_dataset)
ClusterSumInputs ==
    UNION {
      {[type |-> "Dataset", data_vars |-> <<>>, latitude |-> Latitude, longitude |-> lon]}
      \cup
      UNION {{ [type |-> "DataArray", latitude |-> Latitude, longitude |-> lon,
                data_vars |-> <<[name |-> "a", values |-> GridField(1, lon, present)]>>],
               [type |-> "Dataset", latitude |-> Latitude, longitude |-> lon,
                data_vars |-> <<[name |-> "a", values |-> GridField(1, lon, present)],
                                [name |-> "b", values |->
                                    GridField(2, lon, [x \in DOMAIN present |-> TRUE])]>>] }
             : present \in [(1..NGridTime) \X (1..Len(lon)) -> BOOLEAN]}
      : lon \in {Longitude, <<10, 11, 12>>, <<11, 12>>} }
ClusterInputs ==
    UNION {{[ids |-> ids, masks |-> masks, latitude |-> Latitude, longitude |-> Longitude]
            : masks \in [1..Len(ids) -> [Cells -> BOOLEAN]]}
           : ids \in {<<>>, <<0>>, <<0, 1>>}}
AreaInputs == {[c \in Cells |-> 1], [c \in Cells |-> c[2] + 1]}

CallAggregateClustersum ==
    /\ call = "idle"
    /\ \E ds \in ClusterSumInputs, cluster \in ClusterInputs, weights \in AreaInputs :
         /\ call' = "aggregate_clustersum"
         /\ args' = [ds |-> ds, cluster |-> cluster, clusterdim |-> "clusterId",
                     weights |-> weights]
         /\ ret' = aggregate_clustersum(ds, cluster, "clusterId", weights)

-----------------------------------------------------------------------------
(* reshape_scalar_predictand, reshape_multiday_predictand *)

\* A two-dimensional array (time, features): its time labels, its feature
\* labels and one row of values per time label.

\* Python's slice bounds on a sequence of length n: a negative bound counts
\* from the end, and -0 is 0
PyBound(i, n) == IF i < 0 THEN (IF n + i < 0 THEN 0 ELSE n + i)
                 ELSE (IF i > n THEN n ELSE i)
\* s[:stop] and s[start:]
SliceTo(s, stop) == SubSeq(s, 1, PyBound(stop, Len(s)))
SliceFrom(s, start) == SubSeq(s, PyBound(start, Len(s)) + 1, Len(s))

\* X_dis.to_array(dim='var_dimension') of a Dataset, then
\* X_dis.stack(features=stack_dims): every axis but time becomes one axis
StackFeatures(X_dis) ==
    IF X_dis.type = "Dataset"
    THEN [time |-> X_dis.time,
          features |-> [i \in 1..Len(X_dis.data_vars) |-> X_dis.data_vars[i].name],
          rows |-> [t \in 1..Len(X_dis.time) |->
                      [i \in 1..Len(X_dis.data_vars) |-> X_dis.data_vars[i].values[t]]]]
    ELSE [time |-> X_dis.time,
          features |-> [j \in 1..Len(X_dis.longitude) |-> ToString(X_dis.longitude[j])],
          rows |-> X_dis.values]

\* the positions i of the boolean sequence `keep` with keep[i], in order
RECURSIVE Filter(_, _)
Filter(keep, i) ==
    IF i > Len(keep) THEN <<>>
    ELSE IF keep[i] THEN <<i>> \o Filter(keep, i + 1) ELSE Filter(keep, i + 1)

\* dropna('features', how='all'): a feature stays unless all its values are NaN
DropFeatures(A) ==
    LET Keep(f) == \E t \in 1..Len(A.time) : ~isnan(A.rows[t][f])
        kept == Filter([f \in 1..Len(A.features) |-> Keep(f)], 1)
    IN [time |-> A.time,
        features |-> [k \in 1..Len(kept) |-> A.features[kept[k]]],
        rows |-> [t \in 1..Len(A.time) |-> [k \in 1..Len(kept) |-> A.rows[t][kept[k]]]]]

\* faulty variant of DropRows: how='all'
DropRowsAll(A) ==
    LET Keep(t) == Len(A.features) = 0 \/ \E f \in 1..Len(A.features) : ~isnan(A.rows[t][f])
        kept == Filter([t \in 1..Len(A.time) |-> Keep(t)], 1)
    IN [time |-> [k \in 1..Len(kept) |-> A.time[kept[k]]],
        features |-> A.features,
        rows |-> [k \in 1..Len(kept) |-> A.rows[kept[k]]]]
\* dropna('time', how='any'): a row stays unless one of its values is NaN
DropRows(A) ==
    LET Keep(t) == \A f \in 1..Len(A.features) : ~isnan(A.rows[t][f])
        kept == Filter([t \in 1..Len(A.time) |-> Keep(t)], 1)
    IN [time |-> [k \in 1..Len(kept) |-> A.time[kept[k]]],
        features |-> A.features,
        rows |-> [k \in 1..Len(kept) |-> A.rows[kept[k]]]]

\* the sorted sequence of a set of integers
RECURSIVE Sorted(_)
Sorted(S) ==
    IF S = {} THEN <<>>
    ELSE LET m == CHOOSE x \in S : \A z \in S : x <= z IN <<m>> \o Sorted(S \ {m})

Pos(seq, x) == CHOOSE i \in 1..Len(seq) : seq[i] = x

\* xr.concat([A, B], dim='features'): the arrays are first aligned on time by
\* an outer join (equal indexes are kept, unequal ones give their sorted
\* union; a label an array lacks gives NaN), then B's columns follow A's
Concat(A, B) ==
    LET time == IF A.time = B.time THEN A.time
                ELSE Sorted(Range(A.time) \cup Range(B.time))
        Row(M, lab) == IF lab \in Range(M.time) THEN M.rows[Pos(M.time, lab)]
                       ELSE [f \in 1..Len(M.features) |-> NaN]
    IN [time |-> time,
        features |-> A.features \o B.features,
        rows |-> [t \in 1..Len(time) |-> Row(A, time[t]) \o Row(B, time[t])]]

\* the array of a one-dimensional y, labelled 'predictand' on the features axis
AsColumn(yar) ==
    [time |-> yar.time,
     features |-> <<"predictand">>,
     rows |-> [t \in 1..Len(yar.time) |-> <<yar.values[t]>>]]

\* `for v in y: y = y[v]; break`: the first declared variable
FirstVariable(y) == y.data_vars[1]

\* faulty variant of TooManyDims: >= 1
TooManyDimsFrom1(dims) == Len(dims) >= 1
\* len(yar.dims) > 1
TooManyDims(dims) == Len(dims) > 1

\* Returns (Xda, yda), or raises; `warned` records warnings.warn
reshape_scalar_predictand(X_dis, y) ==
    LET Xar == DropFeatures(StackFeatures(X_dis))
        warned == y.type = "Dataset" /\ Len(y.data_vars) > 1
        yar == IF y.type = "Dataset" THEN FirstVariable(y) ELSE y
    IN IF TooManyDims(yar.dims)
       THEN [status |-> "NotImplementedError", dims |-> yar.dims, warned |-> warned]
       ELSE LET Xyt == DropRows(Concat(Xar, AsColumn(yar)))
            IN [status |-> "ok", warned |-> warned,
                Xda |-> [time |-> Xyt.time,
                         features |-> SliceTo(Xyt.features, -1),
                         rows |-> [t \in 1..Len(Xyt.time) |-> SliceTo(Xyt.rows[t], -1)],
                         coords |-> {"time", "features"}],
                yda |-> [time |-> Xyt.time,
                         values |-> [t \in 1..Len(Xyt.time) |->
                                        Xyt.rows[t][Len(Xyt.features)]],
                         coords |-> yar.coords \ {"latitude", "longitude", "features"}]]

\* y.rename(forecast_day='features'): the (time, forecast_day) array as columns
AsColumns(y) ==
    [time |-> y.time, features |-> y.forecast_day, rows |-> y.values]

reshape_multiday_predictand(X_dis, y) ==
    LET Xar == DropFeatures(StackFeatures(X_dis))
    IN IF y.type # "DataArray" THEN [status |-> "TypeError"]
       ELSE LET out_dim == Len(y.forecast_day)
                Xyt == DropRows(Concat(Xar, AsColumns(y)))
            IN [status |-> "ok",
                Xda |-> [time |-> Xyt.time,
                         features |-> SliceTo(Xyt.features, 0 - out_dim),
                         rows |-> [t \in 1..Len(Xyt.time) |->
                                     SliceTo(Xyt.rows[t], 0 - out_dim)]],
                yda |-> [time |-> Xyt.time,
                         forecast_day |-> SliceFrom(Xyt.features, 0 - out_dim),
                         values |-> [t \in 1..Len(Xyt.time) |->
                                       SliceFrom(Xyt.rows[t], 0 - out_dim)]]]

\* the inputs: a value is missing or a number that names its origin
TimeAxis == [t \in 1..NTime |-> t]
LaterTimeAxis == [t \in 1..NTime |-> t + 1]
XValue(t, f) == Num(10 * t + f)
YValue(lab, d) == Num(100 + 10 * lab + d)
XInputs ==
    UNION {{ [type |-> "Dataset", time |-> TimeAxis,
              data_vars |-> <<[name |-> "a", values |->
                                  [t \in 1..NTime |-> IF present[<<t, 1>>]
                                                      THEN XValue(t, 1) ELSE NaN]],
                              [name |-> "b", values |->
                                  [t \in 1..NTime |-> IF present[<<t, 2>>]
                                                      THEN XValue(t, 2) ELSE NaN]]>>],
             [type |-> "DataArray", time |-> TimeAxis, longitude |-> Longitude,
              values |-> [t \in 1..NTime |->
                            [j \in 1..Len(Longitude) |->
                                IF present[<<t, j>>] THEN XValue(t, j) ELSE NaN]]] }
           : present \in [(1..NTime) \X (1..2) -> BOOLEAN]}
\* a y over time alone, on X's time axis or on one a step later
YSeries ==
    UNION {{ [type |-> "DataArray", dims |-> <<"time">>, time |-> time, coords |-> coords,
              values |-> [t \in 1..NTime |->
                            IF present[t] THEN YValue(time[t], 0) ELSE NaN]]
             : present \in [1..NTime -> BOOLEAN], coords \in {{"time"}} }
           : time \in {TimeAxis, LaterTimeAxis}}
    \cup {[type |-> "DataArray", dims |-> <<"time">>, time |-> TimeAxis,
           coords |-> {"time", "latitude", "longitude"},
           values |-> [t \in 1..NTime |-> YValue(t, 0)]]}
\* a y of another shape; only its axes are read
YShaped(dims) == [type |-> "DataArray", dims |-> dims, coords |-> Range(dims)]
YShapes == {<<"time", "forecast_day">>, <<"latitude", "longitude">>,
            <<"time", "latitude", "longitude">>}
YScalarInputs ==
    YSeries
    \cup {YShaped(dims) : dims \in YShapes}
    \cup {[type |-> "Dataset", data_vars |-> <<v>>] :
             v \in {y \in YSeries : y.time = TimeAxis} \cup {YShaped(dims) : dims \in YShapes}}
    \cup {[type |-> "Dataset", data_vars |-> <<v, w>>] :
             v \in {y \in YSeries : y.time = TimeAxis /\ y.values[1] # NaN}
                   \cup {YShaped(<<"time", "latitude", "longitude">>)},
             w \in {YShaped(<<"latitude", "longitude">>),
                    [type |-> "DataArray", dims |-> <<"time">>, time |-> TimeAxis,
                     coords |-> {"time"}, values |-> [t \in 1..NTime |-> NaN]]}}

CallReshapeScalarPredictand ==
    /\ call = "idle"
    /\ \E X_dis \in XInputs, y \in YScalarInputs :
         /\ call' = "reshape_scalar_predictand"
         /\ args' = [X_dis |-> X_dis, y |-> y]
         /\ ret' = reshape_scalar_predictand(X_dis, y)

ForecastDayAxes == {<<>>, <<"1">>, <<"1", "2">>}
YMultidayInputs ==
    UNION {{ [type |-> "DataArray", dims |-> <<"time", "forecast_day">>,
              time |-> TimeAxis, forecast_day |-> days,
              values |-> [t \in 1..NTime |->
                            [d \in 1..Len(days) |->
                                IF present[<<t, d>>] THEN YValue(t, d) ELSE NaN]]]
             : present \in [(1..NTime) \X (1..Len(days)) -> BOOLEAN] }
           : days \in ForecastDayAxes}
    \cup {[type |-> "Dataset", data_vars |-> <<YShaped(<<"time", "forecast_day">>)>>]}

CallReshapeMultidayPredictand ==
    /\ call = "idle"
    /\ \E X_dis \in {X \in XInputs : X.type = "Dataset"}, y \in YMultidayInputs :
         /\ call' = "reshape_multiday_predictand"
         /\ args' = [X_dis |-> X_dis, y |-> y]
         /\ ret' = reshape_multiday_predictand(X_dis, y)

-----------------------------------------------------------------------------
(* The caller *)

Init ==
    /\ call = "idle"
    /\ args = <<>>
    /\ ret = <<>>

Return ==
    /\ call # "idle"
    /\ call' = "idle"
    /\ args' = <<>>
    /\ ret' = <<>>

Next ==
    \/ CallClusterByDischarge
    \/ CallShiftAndAggregate
    \/ CallAddShiftedVariables
    \/ CallGetMaskOfBasin
    \/ CallSelectUpstream
    \/ CallAggregateClustersum
    \/ CallReshapeScalarPredictand
    \/ CallReshapeMultidayPredictand
    \/ Return

Spec == Init /\ [][Next]_vars

-----------------------------------------------------------------------------
(* Claims *)

StrictlyIncreasing(s) == \A i \in 1..(Len(s) - 1) : s[i] < s[i + 1]

\* C4: cluster_by_discharge with strictly increasing edges of length K+1
\* returns exactly K masks named "0".."K-1"; mask i is true at a cell iff
\* edges[i] <= value < edges[i+1]; so a cell is in at most one cluster, a
\* cell equal to the last edge, below the first edge or missing is in none,
\* and the clusterId axis has length K+1.
C4_ClusterBins ==
    (call = "cluster_by_discharge" /\ Len(args.bin_edges) >= 1
       /\ StrictlyIncreasing(args.bin_edges)) =>
    LET e == args.bin_edges
        K == Len(e) - 1
        d == args.dis_2d
        m == ret.data_vars
    IN /\ DictNames(m) = [i \in 1..K |-> ToString(i - 1)]
       /\ \A i \in 1..K : \A c \in Cells :
            m[i].values[c] <=> (d[c] # NaN /\ e[i] <= d[c][1] /\ d[c][1] < e[i + 1])
       /\ \A c \in Cells : Cardinality({i \in 1..K : m[i].values[c]}) <= 1
       /\ \A c \in Cells :
            (d[c] = NaN \/ d[c][1] = e[K + 1] \/ d[c][1] < e[1]) =>
                \A i \in 1..K : ~m[i].values[c]
       /\ Len(ret.coords.clusterId) = K + 1

\* C4 witness: edges 0,2,4 (0, 1, 2 in units of one half); a cell with value 3
\* is in cluster "1" only and a cell with the last edge's value 4 is in none.
C4_Witness ==
    /\ call = "cluster_by_discharge"
    /\ args.bin_edges = <<0, 2, 4>>
    /\ args.dis_2d[<<1, 1>>] = Num(3)
    /\ args.dis_2d[<<1, 2>>] = Num(4)
    /\ ret.data_vars[2].name = "1"
    /\ ret.data_vars[2].values[<<1, 1>>]
    /\ ~ret.data_vars[1].values[<<1, 1>>]
    /\ \A i \in 1..2 : ~ret.data_vars[i].values[<<1, 2>>]

InputDataset ==
    IF args.ds.type = "DataArray"
    THEN <<[name |-> args.ds.name, values |-> args.ds.values]>>
    ELSE args.ds.data_vars
SelectedVariables ==
    IF args.variables.type = "str" THEN DictNames(InputDataset) ELSE args.variables.list
\* the series whose value at index t is that of `series` at t-s, else missing
ShiftedBy(series, s) ==
    [t \in 1..Len(series) |->
        IF (t - s) \in 1..Len(series) THEN series[t - s] ELSE NaN]

\* C5: add_shifted_variables: for every selected variable v and every nonzero
\* shift s the output holds a variable v-s (s > 0) or v+s (s < 0) whose value
\* at t is the original v at t-s, missing where the shift exposes a position;
\* a shift of 0 adds nothing; shifts=[1,2], variables=['x'] on a Dataset of
\* x alone gives exactly x, x-1, x-2.
C5_ShiftedVariables ==
    (call = "add_shifted_variables" /\ ret.status = "ok") =>
    /\ \A vi \in 1..Len(SelectedVariables) : \A si \in 1..Len(args.shifts) :
         LET v == SelectedVariables[vi]
             s == args.shifts[si]
             name == v \o (IF s > 0 THEN "-" ELSE "+") \o ToString(s)
         IN (s # 0 /\ DictHas(InputDataset, v)) =>
              /\ DictHas(ret.ds, name)
              /\ DictGet(ret.ds, name) = ShiftedBy(DictGet(InputDataset, v), s)
    /\ (\A si \in 1..Len(args.shifts) : args.shifts[si] = 0) =>
         DictNames(ret.ds) = DictNames(InputDataset)
    /\ (DictNames(InputDataset) = <<"x">> /\ args.shifts = <<1, 2>>
          /\ args.variables.type = "list" /\ args.variables.list = <<"x">>) =>
         DictNames(ret.ds) = <<"x", "x-1", "x-2">>

\* C6: add_shifted_variables is purely additive: every variable of the input
\* is in the output under its name with its values unchanged.
C6_PurelyAdditive ==
    (call = "add_shifted_variables" /\ ret.status = "ok") =>
    \A i \in 1..Len(InputDataset) :
        /\ DictHas(ret.ds, InputDataset[i].name)
        /\ DictGet(ret.ds, InputDataset[i].name) = InputDataset[i].values

\* the basin mask and the axes of a select_upstream call
SU_Basin ==
    get_mask_of_basin([latitude |-> args.mask_river_in_catchment.latitude,
                       longitude |-> args.mask_river_in_catchment.longitude],
                      args.basin).mask
SU_Lat(c) == args.mask_river_in_catchment.latitude[c[1]]
SU_Lon(c) == args.mask_river_in_catchment.longitude[c[2]]
SU_AllFour(c) ==
    /\ SU_Lon(c) <= args.lon
    /\ args.lat - HalfBox <= SU_Lat(c) /\ SU_Lat(c) <= args.lat + HalfBox
    /\ args.lon - HalfBox <= SU_Lon(c) /\ SU_Lon(c) <= args.lon + HalfBox
    /\ args.mask_river_in_catchment.values[c]
    /\ SU_Basin[c]

\* C3 as stated: on every grid, whatever the order of its axes, a cell is
\* true in the mask select_upstream returns iff its longitude is <= lon0, it
\* lies in the inclusive box of 1.5 degrees around (lat0, lon0), it is true in
\* the river mask and it is inside the basin mask.
C3_Original ==
    (call = "select_upstream" /\ ret.status = "ok") =>
    \A c \in DOMAIN ret.values : ret.values[c] <=> SU_AllFour(c)

\* C3 amended: on every grid a cell that is true in the returned mask
\* satisfies the four conditions; on a grid whose latitude axis is descending
\* and whose longitude axis is ascending the returned mask is exactly the
\* cells that satisfy all four.
C3_UpstreamMask ==
    (call = "select_upstream" /\ ret.status = "ok") =>
    /\ \A c \in DOMAIN ret.values : ret.values[c] => SU_AllFour(c)
    /\ (Descending(args.mask_river_in_catchment.latitude)
          /\ Ascending(args.mask_river_in_catchment.longitude)) =>
         \A c \in DOMAIN ret.values : SU_AllFour(c) => ret.values[c]

\* C3 witness: a descending-latitude grid on which a cell on the target's
\* longitude and a cell on the corner of the box are selected, while a river
\* cell of the basin east of the target is not.
C3_Witness ==
    /\ call = "select_upstream"
    /\ ret.status = "ok"
    /\ args.mask_river_in_catchment.latitude = <<3, 0>>
    /\ args.mask_river_in_catchment.longitude = <<0, 3, 6>>
    /\ \E c \in DOMAIN ret.values : ret.values[c] /\ SU_Lon(c) = args.lon
    /\ \E c \in DOMAIN ret.values :
         /\ ret.values[c]
         /\ SU_Lon(c) = args.lon - HalfBox /\ SU_Lat(c) = args.lat + HalfBox
    /\ \E c \in DOMAIN ret.values :
         /\ ~ret.values[c] /\ args.mask_river_in_catchment.values[c] /\ SU_Basin[c]
         /\ SU_Lon(c) > args.lon

\* the polygons of the basins dataset that carry the requested name
Matching(kw_basins) == {i \in 1..Len(Basins) : Basins[i].NAME = kw_basins}

\* C8: get_mask_of_basin fails, and returns no mask, when the basin name
\* matches no polygon or more than one; with exactly one match the mask is
\* true exactly at the cells rasterized inside that polygon.
C8_BasinMatch ==
    call = "get_mask_of_basin" =>
    /\ Cardinality(Matching(args.kw_basins)) # 1 => ret.status # "ok"
    /\ Cardinality(Matching(args.kw_basins)) = 1 =>
         /\ ret.status = "ok"
         /\ LET shape == Basins[CHOOSE i \in Matching(args.kw_basins) : TRUE].geometry
                tr == transform_from_latlon(args.coords.latitude, args.coords.longitude)
            IN \A c \in DOMAIN ret.mask :
                 ret.mask[c] <=> Inside(PixelCentre(tr, c[1], c[2]), shape)

RECURSIVE SumOver(_, _)
\* the sum of f[c] over the cells c of the set S
SumOver(f, S) ==
    IF S = {} THEN 0
    ELSE LET c == CHOOSE x \in S : TRUE IN f[c] + SumOver(f, S \ {c})

CS_SameGrid ==
    /\ args.ds.latitude = args.cluster.latitude
    /\ args.ds.longitude = args.cluster.longitude

\* C9: aggregate_clustersum on matching grids: for every variable v of ds and
\* every cluster c the output holds exactly one variable v_cluster<c> and
\* nothing else; its value at a time step is the sum, over the cells true in
\* c's mask, of value * area (cells outside contribute 0); the output has no
\* clusterdim axis or coordinate.
C9_ClusterSum ==
    (call = "aggregate_clustersum" /\ ret.status = "ok" /\ CS_SameGrid) =>
    LET dv == args.ds.data_vars
        ids == args.cluster.ids
        out == ret.data_vars
    IN /\ Len(out) = Len(dv) * Len(ids)
       /\ Range(DictNames(out)) =
            {dv[i].name \o "_cluster" \o ToString(ids[j]) :
                i \in 1..Len(dv), j \in 1..Len(ids)}
       /\ \A i \in 1..Len(dv) : \A j \in 1..Len(ids) :
            LET r == DictGet(out, dv[i].name \o "_cluster" \o ToString(ids[j]))
                inside == {c \in Cells : args.cluster.masks[j][c]}
            IN \A t \in 1..NGridTime :
                 IF \E c \in inside : dv[i].values[t][c] = NaN
                 THEN r[t] = NaN
                 ELSE r[t] = Num(SumOver([c \in Cells |->
                                            IF c \in inside
                                            THEN dv[i].values[t][c][1] * args.weights[c]
                                            ELSE 0], Cells))
       /\ args.clusterdim \notin ret.coords

\* C9 witness: two variables and two clusters on the cluster's own grid, a
\* cluster that holds one cell only, the other cell missing in the data, and
\* unequal cell areas: the sum is the one cell's value times its area.
C9_Witness ==
    /\ call = "aggregate_clustersum"
    /\ ret.status = "ok"
    /\ CS_SameGrid
    /\ Len(args.ds.data_vars) = 2
    /\ args.cluster.ids = <<0, 1>>
    /\ args.weights[<<1, 2>>] = 3
    /\ args.cluster.masks[2] = (<<1, 1>> :> FALSE @@ <<1, 2>> :> TRUE)
    /\ args.ds.data_vars[1].values[1][<<1, 1>>] = NaN
    /\ args.ds.data_vars[1].values[1][<<1, 2>>] = Num(112)
    /\ DictGet(ret.data_vars, "a_cluster1")[1] = Num(336)
    /\ Len(ret.data_vars) = 4

\* the predictors and the predictand of a reshaper call, read from its
\* arguments: the value of feature f (1 or 2) and of y at a time label
RS_XAt(lab, f) ==
    IF lab \notin Range(args.X_dis.time) THEN NaN
    ELSE LET t == CHOOSE i \in 1..Len(args.X_dis.time) : args.X_dis.time[i] = lab
         IN IF args.X_dis.type = "Dataset" THEN args.X_dis.data_vars[f].values[t]
            ELSE args.X_dis.values[t][f]
RS_Y == IF args.y.type = "Dataset" THEN args.y.data_vars[1] ELSE args.y
RS_YAt(lab) ==
    IF lab \notin Range(RS_Y.time) THEN NaN
    ELSE RS_Y.values[CHOOSE i \in 1..Len(RS_Y.time) : RS_Y.time[i] = lab]
\* the features of X that are not missing at every time step, in order
RS_Retained ==
    LET all == {f \in 1..2 : \E lab \in Range(args.X_dis.time) : RS_XAt(lab, f) # NaN}
    IN Sorted(all)
RS_FeatureLabel(f) ==
    IF args.X_dis.type = "Dataset" THEN args.X_dis.data_vars[f].name
    ELSE ToString(args.X_dis.longitude[f])

\* C1: reshape_scalar_predictand with a y over time: the returned X and y
\* have the same time coordinates in the same order; the retained time steps
\* are exactly those at which no retained feature of X is missing and the
\* predictand is present; so no returned row holds a missing value, no
\* complete row is dropped, and every returned value is the input's.
C1_AlignedRows ==
    (call = "reshape_scalar_predictand" /\ RS_Y.dims = <<"time">>) =>
    LET labels == Range(args.X_dis.time) \cup Range(RS_Y.time)
        complete == {lab \in labels :
                        /\ \A k \in 1..Len(RS_Retained) : RS_XAt(lab, RS_Retained[k]) # NaN
                        /\ RS_YAt(lab) # NaN}
    IN /\ ret.status = "ok"
       /\ ret.Xda.time = ret.yda.time
       /\ ret.Xda.time = Sorted(complete)
       /\ Len(ret.Xda.rows) = Len(ret.Xda.time)
       /\ Len(ret.yda.values) = Len(ret.yda.time)
       /\ ret.Xda.features = [k \in 1..Len(RS_Retained) |-> RS_FeatureLabel(RS_Retained[k])]
       /\ \A t \in 1..Len(ret.Xda.time) :
            /\ ret.Xda.rows[t] =
                 [k \in 1..Len(RS_Retained) |-> RS_XAt(ret.Xda.time[t], RS_Retained[k])]
            /\ \A k \in 1..Len(ret.Xda.rows[t]) : ret.Xda.rows[t][k] # NaN
            /\ ret.yda.values[t] = RS_YAt(ret.yda.time[t])
            /\ ret.yda.values[t] # NaN

\* C1 witness: X loses a feature that is missing throughout, one time step is
\* dropped for a missing predictor and one for a missing predictand, and one
\* complete row is returned.
C1_Witness ==
    /\ call = "reshape_scalar_predictand"
    /\ ret.status = "ok"
    /\ args.y.type = "DataArray"
    /\ args.y.time = args.X_dis.time
    /\ Len(RS_Retained) = 1
    /\ Len(ret.Xda.time) = 1
    /\ \E lab \in Range(args.X_dis.time) :
         RS_XAt(lab, RS_Retained[1]) = NaN /\ RS_YAt(lab) # NaN
    /\ \E lab \in Range(args.X_dis.time) :
         RS_XAt(lab, RS_Retained[1]) # NaN /\ RS_YAt(lab) = NaN

\* C2: reshape_multiday_predictand with a forecast_day axis of length F: the
\* returned y has exactly F columns, labelled by the forecast days in their
\* order, the returned X has exactly the retained features of X and no
\* predictand column, and both share the retained time steps.
C2_MultidaySplit ==
    (call = "reshape_multiday_predictand" /\ ret.status = "ok") =>
    LET F == Len(args.y.forecast_day)
    IN /\ ret.yda.forecast_day = args.y.forecast_day
       /\ \A t \in 1..Len(ret.yda.time) : Len(ret.yda.values[t]) = F
       /\ ret.Xda.features = [k \in 1..Len(RS_Retained) |-> RS_FeatureLabel(RS_Retained[k])]
       /\ \A t \in 1..Len(ret.Xda.time) : Len(ret.Xda.rows[t]) = Len(RS_Retained)
       /\ ret.Xda.time = ret.yda.time

\* C10: reshape_scalar_predictand raises NotImplementedError, naming y's
\* axes and returning nothing, when y (a Dataset narrowed to its first
\* variable, with a warning only if it has several) has more than one axis
\* besides time, and does not fail when y's only axis is time;
\* reshape_multiday_predictand raises a type error, returning nothing, when y
\* is a Dataset.
C10_ErrorOutcomes ==
    /\ call = "reshape_scalar_predictand" =>
         LET nonTime == {i \in 1..Len(RS_Y.dims) : RS_Y.dims[i] # "time"}
         IN /\ Cardinality(nonTime) > 1 =>
                 /\ ret.status = "NotImplementedError"
                 /\ ret.dims = RS_Y.dims
                 /\ DOMAIN ret \cap {"Xda", "yda"} = {}
            /\ RS_Y.dims = <<"time">> =>
                 /\ ret.status = "ok"
                 /\ \A t \in 1..Len(ret.yda.time) : ret.yda.values[t] = RS_YAt(ret.yda.time[t])
            /\ ret.warned <=> (args.y.type = "Dataset" /\ Len(args.y.data_vars) > 1)
    /\ call = "reshape_multiday_predictand" =>
         (args.y.type = "Dataset" =>
             ret.status = "TypeError" /\ DOMAIN ret \cap {"Xda", "yda"} = {})

\* C10 witness: a Dataset of two variables whose first has the axes (time,
\* latitude, longitude): the warning, then the NotImplementedError.
C10_Witness ==
    /\ call = "reshape_scalar_predictand"
    /\ args.y.type = "Dataset"
    /\ Len(args.y.data_vars) = 2
    /\ ret.warned
    /\ ret.status = "NotImplementedError"
    /\ ret.dims = <<"time", "latitude", "longitude">>

=============================================================================
